---- MODULE Spec2Model ----
(***************************************************************************)
(* A model of pyqir's qirlib C++ shims over LLVM:                          *)
(*   - llvm-wrapper/LldWrapper.cpp   : safeLldMainWrapper / safe_lldMain / *)
(*                                     lldMain (crash-recoverable driver)  *)
(*   - llvm-wrapper/MetadataWrapper.cpp : LLVMValueAsMetadata,             *)
(*                                     LLVMRustIsAMDConstant,              *)
(*                                     LLVMRustExtractMDConstant           *)
(*   - llvm-wrapper/ModuleWrapper.cpp, extensions.cpp : the two copies of  *)
(*                                     the module-flag-behavior mapping    *)
(* Each component has its own next-state relation over a common Init.      *)
(***************************************************************************)
EXTENDS Integers, Sequences, FiniteSets, TLC

----------------------------------------------------------------------------
(* Bounds of the model *)

\* number of serialized driver invocations in one process
MaxCalls == 3
\* largest number of bytes the driver writes to one captured stream
MaxOut == 1

----------------------------------------------------------------------------
(* Crash-recoverable driver invocation: LldWrapper.cpp *)

VARIABLES
  pc,          \* position of the (single) caller thread in LldWrapper.cpp
  crashRecoveryEnabled, \* LLVM's process-wide switch for crash recovery
  exitCode,    \* 0 while the process runs, else the status it ended with
  ctx,         \* the process-wide CommonLinkerContext: "absent", "live", "corrupt"
  r,           \* safe_lldMain's local `int r`
  linkR,       \* lldMain's local `bool r`
  crcRetCode,  \* RetCode of the first CrashRecoveryContext
  scopes,      \* number of recovery points RunSafely has installed
  res,         \* the SafeReturn safe_lldMain returned (wrapper's local `res`)
  stdback,     \* the bytes captured in the wrapper's stdout string
  stderrback,  \* the bytes captured in the wrapper's stderr string
  ret,         \* what the caller last received: result and the two buffers
  calls,       \* invocations begun so far
  linkOut,     \* this invocation: how lld::wasm::link ended
  d1,          \* this invocation: how lldMain's own destroy() (line 32) ended
  d2,          \* this invocation: how the destroy() of line 56 ended
  ctxAtCall    \* ctx at the moment this invocation began

lldVars == <<pc, crashRecoveryEnabled, exitCode, ctx, r, linkR, crcRetCode, scopes, res, stdback, stderrback,
             ret, calls, linkOut, d1, d2, ctxAtCall>>

VARIABLES
  valHeap,   \* the value objects of the LLVMContext (handles are identities)
  mdHeap,    \* the metadata objects of the LLVMContext
  mdCall,    \* the last call made through the C boundary, with its result
  mdPc       \* "ok", or "crashed" once a call ran into undefined behaviour

mdVars == <<valHeap, mdHeap, mdCall, mdPc>>

VARIABLES
  llvmVersion,  \* <<LLVM_VERSION_MAJOR, LLVM_VERSION_MINOR>> of the build
  flags,        \* the module's flag entries, in the order they were added
  flagCall,     \* the last module-flag setter call and what became of it
  flagPc        \* "ok", or "aborted" once llvm_unreachable ended the process

flagVars == <<llvmVersion, flags, flagCall, flagPc>>

\* Codes the recovery mechanism records when the fatal path fires:
\* exitLld(1) from lld's fatal(), or 128+signal from the signal handler.
FatalCodes == {1, 134, 139}

NoReturn == [valid |-> FALSE]

\* SafeReturn{ret, canRunAgain}
SafeReturn(code, again) == [retCode |-> code, canRunAgain |-> again]

\* a slip that swaps the two statuses
LldMainStatus_Inverted(ok) == IF ok THEN 1 ELSE 0

\* `return !r ? 1 : 0;` of lldMain
LldMainStatus(ok) == IF ~ok THEN 1 ELSE 0

\* crc.RunSafely(...) installs a recovery point for the duration of its body
\* only where crash recovery has been switched on for the process
\* (llvm::CrashRecoveryContext::Enable()); otherwise it just runs the body
RunSafely(depth, enabled) == IF enabled THEN depth + 1 ELSE depth

\* leaving RunSafely (normally or through the recovery point) removes the
\* recovery point it installed, if any
LeaveScope(depth) == IF depth > 0 THEN depth - 1 ELSE depth

\* where control resumes when the fatal path fires: at the innermost recovery
\* point when there is one, otherwise the process is terminated
FatalTarget(depth, recovered) == IF depth > 0 THEN recovered ELSE "aborted"

\* a crash return that reports the driver's status variable instead
CrashReturn_DriverCode(rc, rr) == SafeReturn(rr, FALSE)

\* a crash return that still allows another run
CrashReturn_RunAgain(rc, rr) == SafeReturn(rc, TRUE)

\* line 50: the first scope did not complete
CrashReturn(rc, rr) == SafeReturn(rc, FALSE)

\* a missing `return`: control falls through to the cleanup of line 55
AfterCrash_FallThrough == "L55"

\* where safe_lldMain continues when the first scope did not complete:
\* it returns at once (line 50), so the wrapper resumes at line 75
AfterCrash == "L75"

\* where safe_lldMain continues when the first scope completed: the block
\* closes (line 51) and the second CrashRecoveryContext is set up (line 55)
AfterScope1 == "L55"

\* a failed cleanup that still allows another run
CleanupFailedReturn_StillOk(rc, rr) == SafeReturn(rr, TRUE)

\* line 58: the second scope did not complete
CleanupFailedReturn(rc, rr) == SafeReturn(rr, FALSE)

\* line 60
CleanReturn(rc, rr) == SafeReturn(rr, TRUE)

\* the bytes a captured stream is made of: NUL and a printable one
Bytes == {0, 65}

\* what the driver can have written to one stream
Streams == UNION {[1..n -> Bytes] : n \in 0..MaxOut}

\* s.c_str() read as a C string: the bytes before the first NUL
CStr(s) ==
  LET nuls == {i \in 1..Len(s) : s[i] = 0}
  IN IF nuls = {} THEN s
     ELSE SubSeq(s, 1, (CHOOSE i \in nuls : \A j \in nuls : i <= j) - 1)

\* strdup(s.c_str()): a fresh copy of the C string, or NULL when the
\* allocation fails
Strdup(s, allocated) ==
  IF allocated THEN [null |-> FALSE, bytes |-> CStr(s)]
  ELSE [null |-> TRUE, bytes |-> <<>>]

\* a destroy() that leaves the context in place
Destroyed_KeepsContext(c) == c

\* CommonLinkerContext::destroy() completing normally: the context is gone
Destroyed(c) == "absent"

\* The fatal path fires with `code`: with a recovery point installed the
\* code is recorded in the first context's RetCode (the second context's is
\* never read) and RunSafely returns false at `recovered`; with none the
\* process ends with that status.
Fatal(code, recovered) ==
  /\ pc' = FatalTarget(scopes, recovered)
  /\ crcRetCode' = IF scopes > 0 /\ recovered = "L50" THEN code ELSE crcRetCode
  /\ exitCode' = IF scopes > 0 THEN exitCode ELSE code
  /\ scopes' = LeaveScope(scopes)

Running == pc \in {"L23", "L32", "L50", "L55", "L56", "L58", "L60", "L75"}

(* safeLldMainWrapper is entered (lines 68-73), safe_lldMain sets r = 0 and
   enters the first crash-recovery scope, lldMain is about to call link. *)
Call ==
  /\ pc = "idle"
  /\ calls < MaxCalls
  /\ calls' = calls + 1
  /\ stdback' = <<>>
  /\ stderrback' = <<>>
  /\ r' = 0
  /\ crcRetCode' = 0
  /\ scopes' = RunSafely(scopes, crashRecoveryEnabled)
  /\ linkOut' = "none" /\ d1' = "none" /\ d2' = "none"
  /\ ctxAtCall' = ctx
  /\ pc' = "L23"
  /\ UNCHANGED <<ctx, linkR, res, ret>>
  /\ UNCHANGED <<mdVars, flagVars>>
  /\ UNCHANGED <<crashRecoveryEnabled, exitCode>>

(* line 23: lld::wasm::link returns normally, true or false *)
LinkReturns ==
  /\ pc = "L23"
  /\ \E ok \in BOOLEAN, o \in Streams, e \in Streams :
       /\ linkR' = ok
       /\ stdback' = o
       /\ stderrback' = e
       /\ linkOut' = IF ok THEN "ok" ELSE "fail"
  /\ ctx' = "live"
  /\ pc' = "L32"
  /\ UNCHANGED <<r, crcRetCode, scopes, res, ret, calls, d1, d2, ctxAtCall>>
  /\ UNCHANGED <<mdVars, flagVars>>
  /\ UNCHANGED <<crashRecoveryEnabled, exitCode>>

(* line 23: the fatal path fires inside lld::wasm::link *)
LinkFatal ==
  /\ pc = "L23"
  /\ \E code \in FatalCodes, o \in Streams, e \in Streams :
       /\ Fatal(code, "L50")
       /\ stdback' = o
       /\ stderrback' = e
  /\ linkOut' = "fatal"
  /\ ctx' = "live"
  /\ UNCHANGED <<r, linkR, res, ret, calls, d1, d2, ctxAtCall>>
  /\ UNCHANGED <<mdVars, flagVars>>
  /\ UNCHANGED crashRecoveryEnabled

(* lines 32-34 and 48: lldMain destroys the context and returns its status,
   which the lambda stores in r; the first scope completes *)
LldMainDestroy ==
  /\ pc = "L32"
  /\ ctx' = Destroyed(ctx)
  /\ d1' = "ok"
  /\ r' = LldMainStatus(linkR)
  /\ scopes' = LeaveScope(scopes)
  /\ pc' = AfterScope1
  /\ UNCHANGED <<linkR, crcRetCode, res, stdback, stderrback, ret, calls,
                 linkOut, d2, ctxAtCall>>
  /\ UNCHANGED <<mdVars, flagVars>>
  /\ UNCHANGED <<crashRecoveryEnabled, exitCode>>

(* line 32: the fatal path fires inside lldMain's destroy() *)
LldMainDestroyFatal ==
  /\ pc = "L32"
  /\ \E code \in FatalCodes : Fatal(code, "L50")
  /\ ctx' = "corrupt"
  /\ d1' = "fatal"
  /\ UNCHANGED <<r, linkR, res, stdback, stderrback, ret, calls, linkOut, d2,
                 ctxAtCall>>
  /\ UNCHANGED <<mdVars, flagVars>>
  /\ UNCHANGED crashRecoveryEnabled

(* line 50: RunSafely returned false *)
ReturnCrash ==
  /\ pc = "L50"
  /\ res' = CrashReturn(crcRetCode, r)
  /\ pc' = AfterCrash
  /\ UNCHANGED <<ctx, r, linkR, crcRetCode, scopes, stdback, stderrback, ret, calls,
                 linkOut, d1, d2, ctxAtCall>>
  /\ UNCHANGED <<mdVars, flagVars>>
  /\ UNCHANGED <<crashRecoveryEnabled, exitCode>>

(* lines 55-56: the second CrashRecoveryContext; RunSafely is entered *)
EnterCleanupScope ==
  /\ pc = "L55"
  /\ scopes' = RunSafely(scopes, crashRecoveryEnabled)
  /\ pc' = "L56"
  /\ UNCHANGED <<ctx, r, linkR, crcRetCode, res, stdback, stderrback, ret,
                 calls, linkOut, d1, d2, ctxAtCall>>
  /\ UNCHANGED <<mdVars, flagVars>>
  /\ UNCHANGED <<crashRecoveryEnabled, exitCode>>

(* line 56: destroy() in the second scope completes *)
Cleanup ==
  /\ pc = "L56"
  /\ ctx' = Destroyed(ctx)
  /\ d2' = "ok"
  /\ scopes' = LeaveScope(scopes)
  /\ pc' = "L60"
  /\ UNCHANGED <<r, linkR, crcRetCode, res, stdback, stderrback, ret, calls,
                 linkOut, d1, ctxAtCall>>
  /\ UNCHANGED <<mdVars, flagVars>>
  /\ UNCHANGED <<crashRecoveryEnabled, exitCode>>

(* line 56: the fatal path fires inside the second scope's destroy() *)
CleanupFatal ==
  /\ pc = "L56"
  /\ \E code \in FatalCodes : Fatal(code, "L58")
  /\ ctx' = "corrupt"
  /\ d2' = "fatal"
  /\ UNCHANGED <<r, linkR, res, stdback, stderrback, ret, calls,
                 linkOut, d1, ctxAtCall>>
  /\ UNCHANGED <<mdVars, flagVars>>
  /\ UNCHANGED crashRecoveryEnabled

(* line 58 *)
ReturnCleanupFailed ==
  /\ pc = "L58"
  /\ res' = CleanupFailedReturn(crcRetCode, r)
  /\ pc' = "L75"
  /\ UNCHANGED <<ctx, r, linkR, crcRetCode, scopes, stdback, stderrback, ret,
                 calls, linkOut, d1, d2, ctxAtCall>>
  /\ UNCHANGED <<mdVars, flagVars>>
  /\ UNCHANGED <<crashRecoveryEnabled, exitCode>>

(* line 60 *)
ReturnClean ==
  /\ pc = "L60"
  /\ res' = CleanReturn(crcRetCode, r)
  /\ pc' = "L75"
  /\ UNCHANGED <<ctx, r, linkR, crcRetCode, scopes, stdback, stderrback, ret,
                 calls, linkOut, d1, d2, ctxAtCall>>
  /\ UNCHANGED <<mdVars, flagVars>>
  /\ UNCHANGED <<crashRecoveryEnabled, exitCode>>

(* lines 75-77: the wrapper copies the captured streams and returns *)
WrapperReturn ==
  /\ pc = "L75"
  /\ \E outAllocated \in BOOLEAN, errAllocated \in BOOLEAN :
       ret' = [valid |-> TRUE, res |-> res,
               stdoutBuffer |-> Strdup(stdback, outAllocated),
               stderrBuffer |-> Strdup(stderrback, errAllocated)]
  /\ pc' = "idle"
  /\ UNCHANGED <<ctx, r, linkR, crcRetCode, scopes, res, stdback, stderrback,
                 calls, linkOut, d1, d2, ctxAtCall>>
  /\ UNCHANGED <<mdVars, flagVars>>
  /\ UNCHANGED <<crashRecoveryEnabled, exitCode>>

\* gCrashRecoveryEnabled is false when LLVM is loaded and nothing in these
\* files switches it on; only the host process can have done so.
InitLld ==
  /\ pc = "idle"
  /\ crashRecoveryEnabled \in BOOLEAN
  /\ exitCode = 0
  /\ ctx = "absent"
  /\ r = 0
  /\ linkR = FALSE
  /\ crcRetCode = 0
  /\ scopes = 0
  /\ res = SafeReturn(0, FALSE)
  /\ stdback = <<>>
  /\ stderrback = <<>>
  /\ ret = NoReturn
  /\ calls = 0
  /\ linkOut = "none" /\ d1 = "none" /\ d2 = "none"
  /\ ctxAtCall = "absent"

LldStep ==
  \/ LinkReturns
  \/ LinkFatal
  \/ LldMainDestroy
  \/ LldMainDestroyFatal
  \/ ReturnCrash
  \/ EnterCleanupScope
  \/ Cleanup
  \/ CleanupFatal
  \/ ReturnCleanupFailed
  \/ ReturnClean
  \/ WrapperReturn

----------------------------------------------------------------------------
(* Value-to-metadata coercion: MetadataWrapper.cpp *)

\* number of distinct ConstantInt handles in the context
NumInts == 2

NullRef == [cls |-> "null"]

\* The value handles a module holds before any coercion: integer constants, a
\* function (a GlobalValue, hence a Constant) and an instruction.
BaseValues ==
  {[cls |-> "ConstantInt", id |-> i] : i \in 1..NumInts}
    \cup {[cls |-> "Function", id |-> 1], [cls |-> "Instruction", id |-> 1]}

\* Metadata that is no wrapper of a value.
BaseMetadata == {[cls |-> "MDString", id |-> 1]}

\* isa<Constant>(V): the classes below llvm::Constant
IsaConstant(V) == V.cls \in {"ConstantInt", "Function"}

\* isa<MetadataAsValue>(V)
IsaMetadataAsValue(V) == V.cls = "MetadataAsValue"

\* isa<ConstantAsMetadata>(MD)
IsaConstantAsMetadata(MD) == MD.cls = "ConstantAsMetadata"

\* ConstantAsMetadata::get(C): the context's unique wrapper of C
ConstantAsMetadataGet(C) == [cls |-> "ConstantAsMetadata", v |-> C]

\* ValueAsMetadata::get(V): uniqued per value; a Constant gets a
\* ConstantAsMetadata, anything else a LocalAsMetadata
ValueAsMetadataGet(V) ==
  IF IsaConstant(V) THEN ConstantAsMetadataGet(V)
  ELSE [cls |-> "LocalAsMetadata", v |-> V]

\* MetadataAsValue::get(Context, MD), reached through LLVMMetadataAsValue
MetadataAsValueGet(MD) == [cls |-> "MetadataAsValue", md |-> MD]

\* MAV->getMetadata()
GetMetadata(MAV) == MAV.md

\* CMD->getValue()
GetValue(CMD) == CMD.v

\* a coercion without the MetadataAsValue branch
LLVMValueAsMetadata_NoUnwrap(V) ==
  IF IsaConstant(V) THEN ConstantAsMetadataGet(V) ELSE ValueAsMetadataGet(V)

\* LLVMValueAsMetadata on a non-null handle (lines 20-25)
LLVMValueAsMetadata(V) ==
  IF IsaConstant(V) THEN ConstantAsMetadataGet(V)
  ELSE IF IsaMetadataAsValue(V) THEN GetMetadata(V)
  ELSE ValueAsMetadataGet(V)

\* LLVMRustIsAMDConstant (lines 28-33); dyn_cast_or_null accepts null
LLVMRustIsAMDConstant(Val) ==
  IF Val # NullRef /\ IsaMetadataAsValue(Val)
       /\ IsaConstantAsMetadata(GetMetadata(Val))
  THEN Val
  ELSE NullRef

\* an extraction that returns the wrapper, as the predicate does
LLVMRustExtractMDConstant_ReturnsWrapper(Val) ==
  IF Val # NullRef /\ IsaMetadataAsValue(Val)
       /\ IsaConstantAsMetadata(GetMetadata(Val))
  THEN Val
  ELSE NullRef

\* LLVMRustExtractMDConstant (lines 36-43)
LLVMRustExtractMDConstant(Val) ==
  IF Val # NullRef /\ IsaMetadataAsValue(Val)
       /\ IsaConstantAsMetadata(GetMetadata(Val))
  THEN GetValue(GetMetadata(Val))
  ELSE NullRef

\* dyn_cast<> on a null pointer (line 20 with Val = NULL) is undefined: an
\* assertion failure where assertions are compiled in, else a null dereference
NullCastOutcomes == {"assert", "segv"}

CallValueAsMetadata ==
  /\ mdPc = "ok"
  /\ \E V \in valHeap :
       /\ mdCall' = [op |-> "LLVMValueAsMetadata", arg |-> V,
                     ret |-> LLVMValueAsMetadata(V), fresh |->
                       LLVMValueAsMetadata(V) \notin mdHeap]
       /\ mdHeap' = mdHeap \cup {LLVMValueAsMetadata(V)}
  /\ UNCHANGED <<valHeap, mdPc>>
  /\ UNCHANGED <<lldVars, flagVars>>

CallValueAsMetadataNull ==
  /\ mdPc = "ok"
  /\ \E o \in NullCastOutcomes :
       mdCall' = [op |-> "LLVMValueAsMetadata", arg |-> NullRef,
                  ret |-> [cls |-> o], fresh |-> FALSE]
  /\ mdPc' = "crashed"
  /\ UNCHANGED <<valHeap, mdHeap>>
  /\ UNCHANGED <<lldVars, flagVars>>

(* LLVMMetadataAsValue of the LLVM C API: how a caller turns a metadata handle
   into the value handle the two queries take *)
CallMetadataAsValue ==
  /\ mdPc = "ok"
  /\ \E MD \in mdHeap :
       /\ mdCall' = [op |-> "LLVMMetadataAsValue", arg |-> MD,
                     ret |-> MetadataAsValueGet(MD), fresh |->
                       MetadataAsValueGet(MD) \notin valHeap]
       /\ valHeap' = valHeap \cup {MetadataAsValueGet(MD)}
  /\ UNCHANGED <<mdHeap, mdPc>>
  /\ UNCHANGED <<lldVars, flagVars>>

CallIsAMDConstant ==
  /\ mdPc = "ok"
  /\ \E Val \in valHeap \cup {NullRef} :
       mdCall' = [op |-> "LLVMRustIsAMDConstant", arg |-> Val,
                  ret |-> LLVMRustIsAMDConstant(Val), fresh |-> FALSE]
  /\ UNCHANGED <<valHeap, mdHeap, mdPc>>
  /\ UNCHANGED <<lldVars, flagVars>>

CallExtractMDConstant ==
  /\ mdPc = "ok"
  /\ \E Val \in valHeap \cup {NullRef} :
       mdCall' = [op |-> "LLVMRustExtractMDConstant", arg |-> Val,
                  ret |-> LLVMRustExtractMDConstant(Val), fresh |-> FALSE]
  /\ UNCHANGED <<valHeap, mdHeap, mdPc>>
  /\ UNCHANGED <<lldVars, flagVars>>

InitMD ==
  /\ valHeap = BaseValues
  /\ mdHeap = BaseMetadata
  /\ mdCall = [op |-> "none", arg |-> NullRef, ret |-> NullRef, fresh |-> FALSE]
  /\ mdPc = "ok"

----------------------------------------------------------------------------
(* Module-flag-behavior mapping: ModuleWrapper.cpp and extensions.cpp *)

\* number of flag entries added to the module
MaxFlags == 2

\* LLVM releases the crate builds against
LLVMVersions == {<<11, 0>>, <<12, 0>>, <<13, 0>>, <<14, 0>>}

\* LLVMWrapper.h: LLVM_VERSION_GE
LLVM_VERSION_GE(major, minor) ==
  \/ llvmVersion[1] > major
  \/ llvmVersion[1] = major /\ llvmVersion[2] >= minor

\* The enumerators, as both enum declarations number them
ModFlagBehavior_Error == 1
ModFlagBehavior_Warning == 2
ModFlagBehavior_Require == 3
ModFlagBehavior_Override == 4
ModFlagBehavior_Append == 5
ModFlagBehavior_AppendUnique == 6
ModFlagBehavior_Max == 7
ModFlagBehavior_Min == 8

\* enum LLVMRustModFlagBehavior: ModFlagBehaviorFirstVal..ModFlagBehaviorLastVal
RustModFlagBehaviorFirstVal == ModFlagBehavior_Error
RustModFlagBehaviorLastVal ==
  IF LLVM_VERSION_GE(14, 0) THEN ModFlagBehavior_Min ELSE ModFlagBehavior_Max

\* enum LLVMModFlagBehavior of extensions.cpp
ModFlagBehaviorFirstVal == ModFlagBehavior_Error
ModFlagBehaviorLastVal == ModFlagBehavior_Min

\* llvm::Module::ModFlagBehavior as the toolkit numbers it; Min exists from
\* LLVM 15 on
InternalNumber ==
  [n \in {"Error", "Warning", "Require", "Override", "Append", "AppendUnique",
          "Max", "Min"} |->
     CASE n = "Error" -> 1 [] n = "Warning" -> 2 [] n = "Require" -> 3
       [] n = "Override" -> 4 [] n = "Append" -> 5 [] n = "AppendUnique" -> 6
       [] n = "Max" -> 7 [] n = "Min" -> 8]

InternalNames ==
  {"Error", "Warning", "Require", "Override", "Append", "AppendUnique", "Max"}
    \cup (IF LLVM_VERSION_GE(15, 0) THEN {"Min"} ELSE {})

\* llvm::Module::ModFlagBehavior::<name>
Internal(name) == [behavior |-> name, value |-> InternalNumber[name]]

\* the values of llvm::Module::ModFlagBehavior of the toolkit the build links
InternalBehaviors == {Internal(n) : n \in InternalNames}

Unreachable == [kind |-> "unreachable", val |-> [behavior |-> "none", value |-> 0]]
Returns(name) == [kind |-> "return", val |-> Internal(name)]

\* ModuleWrapper.cpp: map_to_llvmRustModFlagBehavior
map_to_llvmRustModFlagBehavior(Behavior) ==
  CASE Behavior = ModFlagBehavior_Error -> Returns("Error")
    [] Behavior = ModFlagBehavior_Warning -> Returns("Warning")
    [] Behavior = ModFlagBehavior_Require -> Returns("Require")
    [] Behavior = ModFlagBehavior_Override -> Returns("Override")
    [] Behavior = ModFlagBehavior_Append -> Returns("Append")
    [] Behavior = ModFlagBehavior_AppendUnique -> Returns("AppendUnique")
    [] Behavior = ModFlagBehavior_Max -> Returns("Max")
    [] Behavior = ModFlagBehavior_Min /\ LLVM_VERSION_GE(14, 0) -> Returns("Min")
    [] OTHER -> Unreachable

\* ModuleWrapper.cpp builds only where every internal value it names exists:
\* `case Min` (lines 58-61) is switched on from LLVM 14, the toolkit has Min
\* from LLVM 15
RustWrapperBuilds == LLVM_VERSION_GE(14, 0) => "Min" \in InternalNames

\* extensions.cpp: map_to_llvmModFlagBehavior (the Min case is commented out)
map_to_llvmModFlagBehavior(Behavior) ==
  CASE Behavior = ModFlagBehavior_Error -> Returns("Error")
    [] Behavior = ModFlagBehavior_Warning -> Returns("Warning")
    [] Behavior = ModFlagBehavior_Require -> Returns("Require")
    [] Behavior = ModFlagBehavior_Override -> Returns("Override")
    [] Behavior = ModFlagBehavior_Append -> Returns("Append")
    [] Behavior = ModFlagBehavior_AppendUnique -> Returns("AppendUnique")
    [] Behavior = ModFlagBehavior_Max -> Returns("Max")
    [] OTHER -> Unreachable

\* the input reinterpreted as an internal value, valid or not
Reinterpreted(Behavior) ==
  IF \E n \in InternalNames : InternalNumber[n] = Behavior
    THEN Internal(CHOOSE n \in InternalNames : InternalNumber[n] = Behavior)
    ELSE [behavior |-> "invalid", value |-> Behavior]

Aborted == [behavior |-> "abort", value |-> 0]

\* llvm_unreachable: aborts where assertions are compiled in; otherwise it is
\* __builtin_unreachable and the behaviour is undefined: the call goes on with
\* an arbitrary value, in optimised builds typically the input unchanged
UnreachableOutcomes(Behavior) ==
  {Aborted, Reinterpreted(Behavior)} \cup InternalBehaviors

\* The codes a caller can pass across the C boundary
BehaviorInputs == 0..(ModFlagBehavior_Min + 1)

FlagKeys == {"k"}
FlagVals == BaseMetadata

\* The setter's body given the mapping's answer m: addModuleFlag on return,
\* one of llvm_unreachable's outcomes otherwise
AddModuleFlag(fn, Behavior, Key, Val, m) ==
  \E o \in (IF m.kind = "return" THEN {m.val}
            ELSE UnreachableOutcomes(Behavior)) :
    /\ flagCall' = [fn |-> fn, behavior |-> Behavior,
                    unreachable |-> m.kind = "unreachable", out |-> o]
    /\ IF o = Aborted
         THEN flagPc' = "aborted" /\ flags' = flags
         ELSE flagPc' = flagPc /\ flags' = Append(flags, <<o, Key, Val>>)
    /\ UNCHANGED llvmVersion

\* ModuleWrapper.cpp: LLVMRustAddModuleFlag
LLVMRustAddModuleFlag ==
  /\ RustWrapperBuilds
  /\ flagPc = "ok"
  /\ Len(flags) < MaxFlags
  /\ \E Behavior \in BehaviorInputs, Key \in FlagKeys, Val \in FlagVals :
       AddModuleFlag("LLVMRustAddModuleFlag", Behavior, Key, Val,
                     map_to_llvmRustModFlagBehavior(Behavior))
  /\ UNCHANGED <<lldVars, mdVars>>

\* extensions.cpp: fixed_LLVMAddModuleFlag
fixed_LLVMAddModuleFlag ==
  /\ flagPc = "ok"
  /\ Len(flags) < MaxFlags
  /\ \E Behavior \in BehaviorInputs, Key \in FlagKeys, Val \in FlagVals :
       AddModuleFlag("fixed_LLVMAddModuleFlag", Behavior, Key, Val,
                     map_to_llvmModFlagBehavior(Behavior))
  /\ UNCHANGED <<lldVars, mdVars>>

InitFlags ==
  /\ llvmVersion \in LLVMVersions
  /\ flags = <<>>
  /\ flagCall = [fn |-> "none", behavior |-> 0, unreachable |-> FALSE,
                 out |-> [behavior |-> "none", value |-> 0]]
  /\ flagPc = "ok"

----------------------------------------------------------------------------
(* Specifications *)

vars == <<lldVars, mdVars, flagVars>>

Init == InitLld /\ InitMD /\ InitFlags

\* a build against LLVM 14, the release that has CommonLinkerContext
InitLLVM14 == Init /\ llvmVersion = <<14, 0>>

\* the driver component
NextLld == Call \/ LldStep
SpecLld == InitLLVM14 /\ [][NextLld]_vars

\* the coercion component
NextMD ==
  \/ CallValueAsMetadata
  \/ CallValueAsMetadataNull
  \/ CallMetadataAsValue
  \/ CallIsAMDConstant
  \/ CallExtractMDConstant
SpecMD == InitLLVM14 /\ [][NextMD]_vars

\* the module-flag component, over every supported toolkit release
NextFlags == LLVMRustAddModuleFlag \/ fixed_LLVMAddModuleFlag
SpecFlags == Init /\ [][NextFlags]_vars

----------------------------------------------------------------------------
(* Properties *)

\* the wrapper has returned to its caller; the history variables describe the
\* invocation that just ended
Returned == pc = "idle" /\ ret.valid

\* the first crash-recovery scope did not complete
Scope1Crashed == linkOut = "fatal" \/ d1 = "fatal"

\* the status lldMain computes from link's answer
DriverStatus == IF linkOut = "ok" THEN 0 ELSE 1

\* C1: when the first crash-recovery scope does not complete (fatal path in
\* link or in lldMain's own teardown), the result carries the recovery
\* scope's code, not the driver's status, and can-run-again is false.
C1_CrashReportsRecoveryCode ==
  (Returned /\ Scope1Crashed) =>
     /\ ret.res.retCode = crcRetCode
     /\ crcRetCode \in FatalCodes
     /\ ~ret.res.canRunAgain

C1_Witness ==
  Returned /\ linkOut = "fail" /\ d1 = "fatal" /\ ret.res.retCode = 134

\* C2 as stated: after the first scope intercepts the fatal path, a teardown
\* of the context is attempted in a second scope before the return.
C2_TeardownAfterCrash_Original ==
  (Returned /\ Scope1Crashed) => d2 # "none"

\* C2 as amended: the second scope's teardown is attempted exactly when the
\* first scope completed normally; after an intercepted fatal path
\* safe_lldMain returns at once, with no further teardown.
C2_SecondScopeOnlyAfterCleanRun ==
  Returned => (d2 # "none" <=> (linkOut \in {"ok", "fail"} /\ d1 = "ok"))

C2_Witness ==
  Returned /\ linkOut = "fatal" /\ d1 = "none" /\ d2 = "none"

\* C3 as stated: when link returns normally with status r, the context is
\* destroyed before the return, the return code is r whether or not teardown
\* completes, and can-run-again holds exactly when teardown completed.
C3_NormalReturnKeepsStatus_Original ==
  (Returned /\ linkOut \in {"ok", "fail"}) =>
     /\ d1 # "none"
     /\ ret.res.retCode = DriverStatus
     /\ (ret.res.canRunAgain <=> (d1 = "ok" /\ d2 = "ok"))

\* C3 as amended: when link returns normally with status r, destroy() is
\* called before the return; the return code is r when lldMain's own teardown
\* completes (whatever the second teardown does) and the recovery scope's code
\* when lldMain's own teardown takes the fatal path; can-run-again holds
\* exactly when both teardowns completed, and then the context is absent.
C3_NormalReturnStatus ==
  (Returned /\ linkOut \in {"ok", "fail"}) =>
     /\ d1 # "none"
     /\ (d1 = "ok" => ret.res.retCode = DriverStatus)
     /\ (d1 = "fatal" => ret.res.retCode = crcRetCode)
     /\ (ret.res.canRunAgain <=> (d1 = "ok" /\ d2 = "ok"))
     /\ (ret.res.canRunAgain => ctx = "absent")

C3_Witness ==
  /\ Returned /\ linkOut = "fail" /\ d1 = "ok" /\ d2 = "fatal"
  /\ ret.res.retCode = 1 /\ ~ret.res.canRunAgain

\* C4: every invocation that has begun returns a result to its caller,
\* whichever of link and the teardown steps take the fatal path: each such
\* step runs under a recovery point, so no fatal path ends the process inside
\* the wrapper.
C4_EveryInvocationReturns ==
  /\ pc # "aborted"
  /\ (pc \in {"L23", "L32", "L56"} => scopes > 0)

\* C5 as stated: no invocation begins while a context of an earlier
\* invocation is still there, and a result with can-run-again = true is only
\* returned with the context absent.
C5_ContextAbsentAtStart_Original ==
  /\ (pc = "L23" => ctxAtCall = "absent")
  /\ ((Returned /\ ret.res.canRunAgain) => ctx = "absent")

\* C5 as amended: the first invocation, and every invocation that follows a
\* result with can-run-again = true, begins with the context absent, and a
\* result with can-run-again = true is only returned with the context absent;
\* after a result with can-run-again = false the context may remain.
C5_ContextAbsentAfterRunAgain ==
  /\ ((pc = "L23" /\ (~ret.valid \/ ret.res.canRunAgain))
        => ctxAtCall = "absent")
  /\ ((Returned /\ ret.res.canRunAgain) => ctx = "absent")

C5_Witness ==
  pc = "L23" /\ calls = 2 /\ ret.valid /\ ret.res.canRunAgain

\* C6 as stated: after an intercepted fatal path of the driver, can-run-again
\* is true when the following teardown completed and false only when that
\* teardown failed too.
C6_RunAgainReflectsCleanup_Original ==
  (Returned /\ linkOut = "fatal") =>
     /\ (d2 = "ok" => ret.res.canRunAgain)
     /\ (~ret.res.canRunAgain => d2 = "fatal")

\* C6 as amended: after an intercepted fatal path of the driver,
\* can-run-again is always false and no teardown is attempted at all.
C6_CrashNeverRunsAgain ==
  (Returned /\ linkOut = "fatal") =>
     /\ ~ret.res.canRunAgain
     /\ d1 = "none"
     /\ d2 = "none"

C6_Witness ==
  Returned /\ linkOut = "fatal" /\ ~ret.res.canRunAgain /\ ret.res.retCode = 1

\* C7 as stated: when link returns false by normal return, the return code is
\* non-zero and can-run-again is true.
C7_OrdinaryFailure_Original ==
  (Returned /\ linkOut = "fail") =>
     /\ ret.res.retCode # 0
     /\ ret.res.canRunAgain

\* C7 as amended: when link returns false by normal return and both teardown
\* steps complete, the return code is 1 and can-run-again is true; if a
\* teardown step takes the fatal path can-run-again is false (and the return
\* code is the recovery scope's when it was lldMain's own teardown).
C7_OrdinaryFailure ==
  (Returned /\ linkOut = "fail") =>
     /\ ((d1 = "ok" /\ d2 = "ok") =>
           (ret.res.retCode = 1 /\ ret.res.canRunAgain))
     /\ ((d1 = "fatal" \/ d2 = "fatal") => ~ret.res.canRunAgain)
     /\ (d1 = "ok" => ret.res.retCode = 1)
     /\ (d1 = "fatal" => ret.res.retCode = crcRetCode)

C7_Witness ==
  /\ Returned /\ linkOut = "fail" /\ d1 = "ok" /\ d2 = "ok"
  /\ ret.res.retCode = 1 /\ ret.res.canRunAgain

\* the internal value that has the same name as each wrapper enumerator
SameName ==
  (1 :> "Error") @@ (2 :> "Warning") @@ (3 :> "Require") @@ (4 :> "Override")
    @@ (5 :> "Append") @@ (6 :> "AppendUnique") @@ (7 :> "Max") @@ (8 :> "Min")

\* the values each copy's enumeration declares
DeclaredRange(fn) ==
  IF fn = "LLVMRustAddModuleFlag"
    THEN RustModFlagBehaviorFirstVal..RustModFlagBehaviorLastVal
    ELSE ModFlagBehaviorFirstVal..ModFlagBehaviorLastVal

\* C8: in both copies of the mapping every declared value, FirstVal..LastVal,
\* maps by normal return to the internal value of the same name, and only
\* values outside the declared range reach llvm_unreachable.
C8_MappingTotalOnDeclaredRange ==
  flagCall.fn # "none" =>
     /\ (flagCall.behavior \in DeclaredRange(flagCall.fn) =>
           (~flagCall.unreachable /\ flagCall.out.behavior = SameName[flagCall.behavior]))
     /\ (flagCall.behavior \notin DeclaredRange(flagCall.fn) =>
           flagCall.unreachable)

\* the same statement for the ModuleWrapper.cpp copy alone
C8_RustCopyTotalOnDeclaredRange ==
  flagCall.fn = "LLVMRustAddModuleFlag" =>
     /\ (flagCall.behavior \in DeclaredRange(flagCall.fn) =>
           (~flagCall.unreachable /\ flagCall.out.behavior = SameName[flagCall.behavior]))
     /\ (flagCall.behavior \notin DeclaredRange(flagCall.fn) =>
           flagCall.unreachable)

\* C9: on a non-null handle LLVMValueAsMetadata does not fail and takes one of
\* three branches by dynamic kind: a Constant gives the constant-as-metadata
\* wrapper of it, a MetadataAsValue gives the metadata it carries (no new
\* object), anything else gives a value-as-metadata wrapper of it.
C9_CoercionByKind ==
  (mdCall.op = "LLVMValueAsMetadata" /\ mdCall.arg # NullRef) =>
     /\ mdPc = "ok"
     /\ mdCall.ret \in mdHeap
     /\ (mdCall.arg.cls \in {"ConstantInt", "Function"} =>
           mdCall.ret = [cls |-> "ConstantAsMetadata", v |-> mdCall.arg])
     /\ (mdCall.arg.cls = "MetadataAsValue" =>
           (mdCall.ret = mdCall.arg.md /\ ~mdCall.fresh))
     /\ (mdCall.arg.cls = "Instruction" =>
           mdCall.ret = [cls |-> "LocalAsMetadata", v |-> mdCall.arg])

C9_Witness ==
  /\ mdCall.op = "LLVMValueAsMetadata"
  /\ mdCall.arg.cls = "MetadataAsValue"
  /\ mdCall.arg.md.cls = "LocalAsMetadata"
  /\ mdCall.ret = mdCall.arg.md

\* C10: extracting from the metadata-as-value wrapping of the coercion of a
\* constant c gives c back; extracting from any handle that is no
\* metadata-as-value wrapper of a constant-as-metadata node (null, a plain
\* constant, an instruction, a wrapper of other metadata) gives null.
C10_RoundTrip ==
  mdCall.op = "LLVMRustExtractMDConstant" =>
     /\ \A c \in valHeap :
          (c.cls \in {"ConstantInt", "Function"}
             /\ mdCall.arg = MetadataAsValueGet(LLVMValueAsMetadata(c)))
          => mdCall.ret = c
     /\ ~(mdCall.arg.cls = "MetadataAsValue"
            /\ mdCall.arg.md.cls = "ConstantAsMetadata")
          => mdCall.ret = NullRef

C10_Witness ==
  /\ mdCall.op = "LLVMRustExtractMDConstant"
  /\ mdCall.arg.cls = "MetadataAsValue"
  /\ mdCall.arg.md.cls = "ConstantAsMetadata"
  /\ mdCall.ret = [cls |-> "Function", id |-> 1]

====
